---------------------------- MODULE Spec2Model ----------------------------
(***************************************************************************)
(* A model of the Table class of src/src/index.ts: a table of string cells *)
(* under fixed column names, its CSV writer (toString), its CSV reader     *)
(* (getDataFrom) and the accessors that guard its two private arrays.      *)
(*                                                                         *)
(* A JavaScript string is modelled as a sequence of one-character strings; *)
(* a JavaScript array of strings as a sequence of such sequences.          *)
(***************************************************************************)
EXTENDS Integers, Sequences, FiniteSets, TLC

(***************************************************************************)
(* Characters.  Every character other than the three the code tests for    *)
(* takes the same path through the code; "a" stands for all of them.       *)
(***************************************************************************)
Quote == "\""
Comma == ","
NL == "\n"
Chars == {"a", Comma, NL, Quote}

\* what data[i] evaluates to when i is not an index of the string
Undefined == "undefined"

(***************************************************************************)
(* Bounds of the model.                                                    *)
(***************************************************************************)
\* columns of a table handed to toString
MaxCols == 2
\* rows of a table handed to toString
MaxRows == 2
\* characters in all the cells of such a table together
MaxChars == 2
\* cells of a table given to toString, header and rows together
MaxCells == 6
\* characters of a single field handed to toString on its own
MaxFieldLen == 3
\* characters of a file text handed to the parser
MaxTextLen == 5

\* data[i] of JavaScript, i counted from 0
At(data, i) == IF i >= 0 /\ i < Len(data) THEN data[i + 1] ELSE Undefined

\* all strings of at most n characters
RECURSIVE StringsUpTo(_)
StringsUpTo(n) ==
    IF n = 0 THEN {<<>>}
    ELSE LET shorter == StringsUpTo(n - 1)
         IN  shorter \cup {Append(s, c) : s \in {t \in shorter : Len(t) = n - 1}, c \in Chars}

(***************************************************************************)
(* toString and its helper convertToproperStr.                             *)
(***************************************************************************)
\* the loop of convertToproperStr from position k on: properString so far and
\* the needsQuotes flag so far
RECURSIVE convertLoop(_, _, _, _)
convertLoop(str, k, properString, needsQuotes) ==
    IF ~(k < Len(str)) THEN [properString |-> properString, needsQuotes |-> needsQuotes]
    ELSE LET c == At(str, k)
         IN  IF c = Quote
             THEN convertLoop(str, k + 1, properString \o <<Quote, Quote>>, needsQuotes)
             ELSE IF c = Comma \/ c = NL
             THEN convertLoop(str, k + 1, Append(properString, c), TRUE)
             ELSE convertLoop(str, k + 1, Append(properString, c), needsQuotes)

\* a variant that quotes a field for a double quote anywhere in it
convertToproperStrAnyQuote(str) ==
    LET r == convertLoop(str, 0, <<Quote>>, \E i \in 1..Len(str) : str[i] = Quote)
    IN  IF r.needsQuotes THEN Append(r.properString, Quote) ELSE str

convertToproperStr(str) ==
    LET r == convertLoop(str, 0, <<Quote>>, At(str, 0) = Quote)
    IN  IF r.needsQuotes THEN Append(r.properString, Quote) ELSE str

\* the cells of one array from position j on, each encoded, a comma before
\* every cell but the first
RECURSIVE joinCells(_, _)
joinCells(cells, j) ==
    IF ~(j < Len(cells)) THEN <<>>
    ELSE (IF j # 0 THEN <<Comma>> ELSE <<>>)
         \o convertToproperStr(cells[j + 1]) \o joinCells(cells, j + 1)

\* the rows from position i on, a newline before every row but the first
RECURSIVE joinRows(_, _)
joinRows(data, i) ==
    IF ~(i < Len(data)) THEN <<>>
    ELSE (IF i # 0 THEN <<NL>> ELSE <<>>)
         \o joinCells(data[i + 1], 0) \o joinRows(data, i + 1)

\* a variant that ends the header line with a newline even when no row follows
toStringAlwaysNewline(columns, data) ==
    joinCells(columns, 0) \o <<NL>> \o joinRows(data, 0)

toString(columns, data) ==
    LET str == joinCells(columns, 0)
    IN  IF Len(data) = 0 THEN str ELSE str \o <<NL>> \o joinRows(data, 0)

\* the quoted loop without the extra step over the second quote of a pair
RECURSIVE quotedLoopNoSkip(_, _, _)
quotedLoopNoSkip(data, i, parsedColumn) ==
    IF ~(i < Len(data) - 1) THEN [parsedColumn |-> parsedColumn, endIndex |-> Len(data)]
    ELSE IF At(data, i) # Quote
    THEN quotedLoopNoSkip(data, i + 1, Append(parsedColumn, At(data, i)))
    ELSE IF At(data, i + 1) = Quote
    THEN quotedLoopNoSkip(data, i + 1, Append(parsedColumn, Quote))
    ELSE [parsedColumn |-> parsedColumn, endIndex |-> i + 1]

\* the unquoted loop ending a field at a double quote as well
RECURSIVE unquotedLoopStopAtQuote(_, _, _)
unquotedLoopStopAtQuote(data, i, parsedColumn) ==
    IF ~(i < Len(data)) THEN [parsedColumn |-> parsedColumn, endIndex |-> Len(data)]
    ELSE IF At(data, i) = Comma \/ At(data, i) = NL \/ At(data, i) = Quote
    THEN [parsedColumn |-> parsedColumn, endIndex |-> i]
    ELSE unquotedLoopStopAtQuote(data, i + 1, Append(parsedColumn, At(data, i)))

(***************************************************************************)
(* The parser inside getDataFrom.                                          *)
(***************************************************************************)
\* the loop of parseColumn's quoted branch
RECURSIVE quotedLoop(_, _, _)
quotedLoop(data, i, parsedColumn) ==
    IF ~(i < Len(data) - 1) THEN [parsedColumn |-> parsedColumn, endIndex |-> Len(data)]
    ELSE IF At(data, i) # Quote
    THEN quotedLoop(data, i + 1, Append(parsedColumn, At(data, i)))
    ELSE IF At(data, i + 1) = Quote
    THEN quotedLoop(data, i + 2, Append(parsedColumn, Quote))
    ELSE [parsedColumn |-> parsedColumn, endIndex |-> i + 1]

\* the loop of parseColumn's unquoted branch
RECURSIVE unquotedLoop(_, _, _)
unquotedLoop(data, i, parsedColumn) ==
    IF ~(i < Len(data)) THEN [parsedColumn |-> parsedColumn, endIndex |-> Len(data)]
    ELSE IF At(data, i) = Comma \/ At(data, i) = NL
    THEN [parsedColumn |-> parsedColumn, endIndex |-> i]
    ELSE unquotedLoop(data, i + 1, Append(parsedColumn, At(data, i)))

parseColumn(data, index) ==
    IF At(data, index) = Quote
    THEN quotedLoop(data, index + 1, <<>>)
    ELSE unquotedLoop(data, index, <<>>)

\* the while(true) loop of parseRow.  When the character at endIndex is none
\* of the three the switch names, nothing changes and the loop runs again on
\* the same index for ever: hangs is TRUE and the call never returns.
RECURSIVE parseRowLoop(_, _, _)
parseRowLoop(data, index, parsedRow) ==
    LET col == parseColumn(data, index)
        c == At(data, col.endIndex)
    IN  IF c = Comma
        THEN parseRowLoop(data, col.endIndex + 1, Append(parsedRow, col.parsedColumn))
        ELSE IF c = Undefined \/ c = NL
        THEN [parsedRow |-> IF col.parsedColumn # <<>>
                            THEN Append(parsedRow, col.parsedColumn)
                            ELSE parsedRow,
              endIndex |-> col.endIndex,
              hangs |-> FALSE]
        ELSE [parsedRow |-> parsedRow, endIndex |-> col.endIndex, hangs |-> TRUE]

parseRow(data, index) == parseRowLoop(data, index, <<>>)

\* a Table.Error as far as the code fills it in: its type and the three
\* numbers its description names ("none": no error)
\* and, in data, the error of fs it carries
NoError == [type |-> "none", row |-> 0, has |-> 0, expected |-> 0, data |-> "none"]
InconsistentRowLengths(row, has, expected) ==
    [type |-> "InconsistentRowLengths", row |-> row, has |-> has, expected |-> expected,
     data |-> "none"]
CannotAccessFile(error) ==
    [type |-> "CannotAccessFile", row |-> 0, has |-> 0, expected |-> 0, data |-> error]
\* what a callback throws
CallbackException ==
    [type |-> "exception", row |-> 0, has |-> 0, expected |-> 0, data |-> "thrown"]

\* a variant that tells the callback null whatever the outcome
notifyAlwaysNull(outcome, error, throws) ==
    [calls |-> <<NoError>>, caught |-> throws]

\* promise.then(() => callbackFn(null)).catch(callbackFn): the argument
\* callbackFn is called with once the promise is settled, and whether that
\* call leaves a reaction of catch() behind.  A callback that throws when
\* called with null rejects the promise then() returned; catch() calls it
\* again with what it threw, in a later job of the microtask queue.
notify(outcome, error, throws) ==
    IF outcome = "resolved"
    THEN [calls |-> <<NoError>>, caught |-> throws]
    ELSE [calls |-> <<error>>, caught |-> FALSE]

\* a variant that numbers the rows of its error from 0
RECURSIVE parseRowsLoopZeroBased(_, _, _, _)
parseRowsLoopZeroBased(content, columns, i, data) ==
    IF i = Len(content)
    THEN [outcome |-> "resolve", columns |-> columns, data |-> data, error |-> NoError]
    ELSE LET r == parseRow(content, i + 1)
         IN  IF r.hangs
             THEN [outcome |-> "hang", columns |-> <<>>, data |-> <<>>, error |-> NoError]
             ELSE IF Len(r.parsedRow) # Len(columns)
             THEN [outcome |-> "reject", columns |-> <<>>, data |-> <<>>,
                   error |-> InconsistentRowLengths(Len(data), Len(r.parsedRow),
                                                    Len(columns))]
             ELSE parseRowsLoopZeroBased(content, columns, r.endIndex,
                                         Append(data, r.parsedRow))

\* the while(i != content.length) loop of getDataFrom
RECURSIVE parseRowsLoop(_, _, _, _)
parseRowsLoop(content, columns, i, data) ==
    IF i = Len(content)
    THEN [outcome |-> "resolve", columns |-> columns, data |-> data, error |-> NoError]
    ELSE LET r == parseRow(content, i + 1)
         IN  IF r.hangs
             THEN [outcome |-> "hang", columns |-> <<>>, data |-> <<>>, error |-> NoError]
             ELSE IF Len(r.parsedRow) # Len(columns)
             THEN [outcome |-> "reject", columns |-> <<>>, data |-> <<>>,
                   error |-> InconsistentRowLengths(Len(data) + 1, Len(r.parsedRow),
                                                    Len(columns))]
             ELSE parseRowsLoop(content, columns, r.endIndex, Append(data, r.parsedRow))

\* the body of the readFile callback of getDataFrom once the content is there:
\* what it would store (columns, data) and how it ends
parseContent(content) ==
    LET h == parseRow(content, 0)
    IN  IF h.hangs
        THEN [outcome |-> "hang", columns |-> <<>>, data |-> <<>>, error |-> NoError]
        ELSE parseRowsLoop(content, h.parsedRow, h.endIndex, <<>>)

(***************************************************************************)
(* The state.  Arrays live on a heap, since JavaScript hands them around   *)
(* by reference: flat[r] is the array of strings with reference r, and     *)
(* outer[o] the array of rows with reference o, each row a reference into  *)
(* flat.  Reference 0 is no array.                                         *)
(***************************************************************************)
VARIABLES
    flat,           \* heap of the arrays of strings
    outer,          \* heap of the arrays of rows
    tbl,            \* "none": no Table object yet; "live": the object exists
    _columns,       \* this._columns, a reference into flat
    _data,          \* this._data, a reference into outer
    load,           \* the read of getDataFrom: none, pending, resolved, rejected, hung
    loadError,      \* the Table.Error the read promise was rejected with
    disk,           \* the text of the file
    fetched,        \* fs.readFile has read the file for the pending read
    content,        \* the text fs.readFile read
    write,          \* the write of saveTo: its state and the text handed to fs.writeFile
    saveError,      \* the Table.Error the write promise was rejected with
    reactions,      \* the reactions of catch() waiting in the microtask queue
    saveCalls,      \* arguments the callback of the last saveTo was called with
    loadCalls,      \* arguments the callback of the last file constructor was called with
    thrown,         \* the Table.Error the last constructor or data assignment threw
    callerColumns,  \* the columns array the caller handed to the constructor
    callerData,     \* the data array the caller handed over last
    gotColumns,     \* the array the columns getter returned last
    gotData,        \* the array the data getter returned last
    op,             \* the operation that took the last step
    budget          \* operations the caller may still start

vars == <<flat, outer, tbl, _columns, _data, load, loadError, disk, fetched, content, write,
          saveError, saveCalls, loadCalls, reactions,
          thrown, callerColumns, callerData, gotColumns, gotData, op, budget>>

\* the strings of the array r
HeapColumns(fl, r) == IF r = 0 THEN <<>> ELSE fl[r]
\* the rows of the array o, each as its strings
HeapData(fl, ou, o) == IF o = 0 THEN <<>> ELSE [i \in 1..Len(ou[o]) |-> fl[ou[o][i]]]

\* what the table holds, by value
TableColumns == IF tbl = "live" THEN HeapColumns(flat, _columns) ELSE <<>>
TableData == IF tbl = "live" THEN HeapData(flat, outer, _data) ELSE <<>>

\* the entries of refs other than 0, each once, in the order they first appear
RECURSIVE Distinct(_, _)
Distinct(refs, seen) ==
    IF refs = <<>> THEN seen
    ELSE IF Head(refs) = 0 \/ \E i \in 1..Len(seen) : seen[i] = Head(refs)
    THEN Distinct(Tail(refs), seen)
    ELSE Distinct(Tail(refs), Append(seen, Head(refs)))

RECURSIVE Concat(_)
Concat(seqs) == IF seqs = <<>> THEN <<>> ELSE Head(seqs) \o Concat(Tail(seqs))

IndexIn(refs, r) == IF r = 0 THEN 0 ELSE CHOOSE i \in 1..Len(refs) : refs[i] = r

\* Garbage collection: h holds the two heaps and the six references of the
\* state (cols, data: the table's; ccols, cdata: the caller's arguments;
\* gcols, gdata: what the getters returned).  An array none of them reaches
\* is gone; the arrays left are numbered in the order they are reached.  A
\* reference tells a program nothing but which array it is, so the
\* numbering is free.
Collect(h) ==
    LET outers == Distinct(<<h.data, h.cdata, h.gdata>>, <<>>)
        flats == Distinct(<<h.cols, h.ccols, h.gcols>>
                          \o Concat([i \in 1..Len(outers) |-> h.outer[outers[i]]]), <<>>)
    IN  [flat |-> [i \in 1..Len(flats) |-> h.flat[flats[i]]],
         outer |-> [i \in 1..Len(outers) |->
                       [j \in 1..Len(h.outer[outers[i]]) |->
                           IndexIn(flats, h.outer[outers[i]][j])]],
         cols |-> IndexIn(flats, h.cols),
         data |-> IndexIn(outers, h.data),
         ccols |-> IndexIn(flats, h.ccols),
         cdata |-> IndexIn(outers, h.cdata),
         gcols |-> IndexIn(flats, h.gcols),
         gdata |-> IndexIn(outers, h.gdata)]

\* a caller's array literal: the rows put on the heap, and their references
AllocRows(fl, rows) ==
    [flat |-> fl \o rows, refs |-> [i \in 1..Len(rows) |-> Len(fl) + i]]

\* a variant that copies an array of rows but not the rows in it
cloneArrayShallow(fl, ou, nested, r) ==
    IF nested
    THEN [flat |-> fl, outer |-> Append(ou, ou[r]), ref |-> Len(ou) + 1]
    ELSE [flat |-> Append(fl, fl[r]), outer |-> ou, ref |-> Len(fl) + 1]

(***************************************************************************)
(* cloneArray.  The code tells a nested array from a string per element;   *)
(* here an array of rows is one of outer and an array of strings one of    *)
(* flat, so the caller says which (nested).                                *)
(***************************************************************************)
cloneArray(fl, ou, nested, r) ==
    IF nested
    THEN LET a == AllocRows(fl, HeapData(fl, ou, r))
         IN  [flat |-> a.flat, outer |-> Append(ou, a.refs), ref |-> Len(ou) + 1]
    ELSE [flat |-> Append(fl, fl[r]), outer |-> ou, ref |-> Len(fl) + 1]

\* a variant that looks at the first row only
setterLoopFirstRowOnly(rows, ncols, i) ==
    IF Len(rows) > 0 /\ Len(rows[1]) # ncols
    THEN InconsistentRowLengths(1, Len(rows[1]), ncols)
    ELSE NoError

(***************************************************************************)
(* The data setter: the loop over the rows, then the assignment.           *)
(***************************************************************************)
RECURSIVE setterLoop(_, _, _)
setterLoop(rows, ncols, i) ==
    IF ~(i < Len(rows)) THEN NoError
    ELSE IF Len(rows[i + 1]) # ncols
    THEN InconsistentRowLengths(i + 1, Len(rows[i + 1]), ncols)
    ELSE setterLoop(rows, ncols, i + 1)

\* a variant that assigns before it checks
setDataAssignFirst(fl, ou, cols, old, d) ==
    [thrown |-> setterLoop(HeapData(fl, ou, d), Len(HeapColumns(fl, cols)), 0), data |-> d]

\* table.data = d, where this._columns = cols and this._data = old: the error
\* thrown (NoError: none) and this._data afterwards
setData(fl, ou, cols, old, d) ==
    LET e == setterLoop(HeapData(fl, ou, d), Len(HeapColumns(fl, cols)), 0)
    IN  [thrown |-> e, data |-> IF e = NoError THEN d ELSE old]

(***************************************************************************)
(* Inputs.                                                                 *)
(***************************************************************************)
\* operations a caller starts on one run
MaxOps == 2

\* the cell of the arrays a caller builds
Cell == <<"a">>
\* the cell a caller writes when it changes an array in place
OtherCell == <<Comma>>

\* arrays of at most n cells
CellArrays(n) == {[i \in 1..k |-> Cell] : k \in 0..n}
\* data arrays: at most MaxRows rows of at most MaxCols cells each, of any lengths
RECURSIVE DataArrays(_)
DataArrays(n) ==
    IF n = 0 THEN {<<>>}
    ELSE LET fewer == DataArrays(n - 1)
         IN  fewer \cup {Append(d, row) : d \in {x \in fewer : Len(x) = n - 1},
                                           row \in CellArrays(MaxCols)}

\* sequences of n cells of at most m characters together: a string of at most
\* m characters cut into n pieces, g[i] the piece its character i falls in
CellSeqs(n, m) ==
    UNION {{[c \in 1..n |-> SubSeq(str, 1 + Cardinality({i \in 1..Len(str) : g[i] < c}),
                                        Cardinality({i \in 1..Len(str) : g[i] <= c}))] :
            g \in {f \in [1..Len(str) -> 1..n] :
                       \A i \in 1..(Len(str) - 1) : f[i] <= f[i + 1]}} :
           str \in StringsUpTo(m)}

\* the table of k columns and nr rows whose cells, row by row, are cells
TableOf(k, nr, cells) ==
    [columns |-> SubSeq(cells, 1, k),
     data |-> [i \in 1..nr |-> SubSeq(cells, k * i + 1, k * (i + 1))]]

\* the shapes of the tables toString is tried on: k columns and nr rows of
\* at most MaxCells cells together
Shapes ==
    {sh \in (0..MaxCols) \X (0..MaxRows) : sh[1] * (1 + sh[2]) <= MaxCells}

\* the tables toString is tried on
Tables ==
    UNION {{TableOf(sh[1], sh[2], cells) :
                cells \in CellSeqs(sh[1] * (1 + sh[2]), MaxChars)} : sh \in Shapes}
    \cup {TableOf(1, 0, <<f>>) : f \in StringsUpTo(MaxFieldLen)}

\* file texts of the test suite, in the characters of the model: empty.csv,
\* nodata.csv, a file with one row, and one whose row is too long
FileExamples == {<<>>, <<"a", Comma, "a">>, <<"a", Comma, "a", NL, "a", Comma, "a">>,
                 <<"a", NL, "a", Comma, "a">>}

\* the text a,b / 1,2 / 3 of the spec, whose second data row is too short
ShortRowExample == <<"a", Comma, "a", NL, "a", Comma, "a", NL, "a">>

\* the file the model reads, and another one
FileName == "f"
OtherName == "g"
\* errors of fs
FsErrors == {"ENOENT", "EACCES"}
\* fs: how far fs.writeFile has come: "requested", "truncated" (the file
\* opened and emptied), "written" (the text in the file)
Idle == [state |-> "idle", content |-> <<>>, name |-> FileName, form |-> "promise",
         requests |-> 0, fs |-> "none"]

(***************************************************************************)
(* Initial states.                                                         *)
(***************************************************************************)
\* nothing constructed yet
InitNone(text) ==
    /\ flat = <<>>
    /\ outer = <<>>
    /\ tbl = "none"
    /\ _columns = 0
    /\ _data = 0
    /\ load = "none"
    /\ loadError = NoError
    /\ disk = text
    /\ fetched = FALSE
    /\ content = <<>>
    /\ write = Idle
    /\ saveError = NoError
    /\ saveCalls = <<>>
    /\ loadCalls = <<>>
    /\ reactions = {}
    /\ thrown = NoError
    /\ callerColumns = 0
    /\ callerData = 0
    /\ gotColumns = 0
    /\ gotData = 0
    /\ op = "none"
    /\ budget = MaxOps

\* after new Table(t.columns, t.data) of a well-shaped table t
InitTable(t) ==
    /\ flat = <<t.columns>> \o t.data
    /\ outer = <<[i \in 1..Len(t.data) |-> 1 + i]>>
    /\ tbl = "live"
    /\ _columns = 1
    /\ _data = 1
    /\ load = "none"
    /\ loadError = NoError
    /\ disk = <<>>
    /\ fetched = FALSE
    /\ content = <<>>
    /\ write = Idle
    /\ saveError = NoError
    /\ saveCalls = <<>>
    /\ loadCalls = <<>>
    /\ reactions = {}
    /\ thrown = NoError
    /\ callerColumns = 1
    /\ callerData = 1
    /\ gotColumns = 0
    /\ gotData = 0
    /\ op = "NewTableArrays"
    /\ budget = MaxOps

Init == \E text \in FileExamples : InitNone(text)

\* the tables and the texts saving and reading with callbacks start from
NotifyTables ==
    {TableOf(0, 0, <<>>), TableOf(2, 0, <<Cell, OtherCell>>),
     TableOf(1, 1, <<Cell, OtherCell>>)}
InitNotify ==
    \/ \E t \in NotifyTables : InitTable(t)
    \/ \E text \in FileExamples \cup {ShortRowExample} : InitNone(text)

InitCodec ==
    \/ \E t \in Tables : InitTable(t)
    \/ \E text \in StringsUpTo(MaxTextLen) \cup FileExamples \cup {ShortRowExample} :
          InitNone(text)

(***************************************************************************)
(* The operations.                                                         *)
(***************************************************************************)
Running == load # "hung"

\* the queue of reactions once a new operation of the kind has started: the
\* reaction left by the earlier operation calls the earlier callback, whose
\* calls saveCalls and loadCalls no longer record
Superseded(kind) ==
    IF kind \in reactions THEN (reactions \ {kind}) \cup {"earlier"} ELSE reactions

\* the heaps and the references of the state
Heap ==
    [flat |-> flat, outer |-> outer, cols |-> _columns, data |-> _data,
     ccols |-> callerColumns, cdata |-> callerData, gcols |-> gotColumns, gdata |-> gotData]

heapVars == <<flat, outer, _columns, _data, callerColumns, callerData, gotColumns, gotData>>

\* the step ends with the heaps and references h, garbage collected
Commit(h) ==
    LET n == Collect(h)
    IN  /\ flat' = n.flat
        /\ outer' = n.outer
        /\ _columns' = n.cols
        /\ _data' = n.data
        /\ callerColumns' = n.ccols
        /\ callerData' = n.cdata
        /\ gotColumns' = n.gcols
        /\ gotData' = n.gdata

\* new Table(columns, data): the caller's two array literals, then the two
\* assignments of the constructor.  When the data setter throws, no object
\* is constructed.
NewTableArrays ==
    /\ tbl = "none" /\ thrown = NoError
    /\ \E columns \in CellArrays(MaxCols), data \in DataArrays(MaxRows) :
         LET a == AllocRows(Append(flat, columns), data)
             cols == Len(flat) + 1
             ou == Append(outer, a.refs)
             d == Len(outer) + 1
             s == setData(a.flat, ou, cols, 0, d)
         IN  /\ Commit([Heap EXCEPT !.flat = a.flat, !.outer = ou,
                                    !.ccols = cols, !.cdata = d,
                                    !.cols = IF s.thrown = NoError THEN cols ELSE 0,
                                    !.data = IF s.thrown = NoError THEN s.data ELSE 0])
             /\ thrown' = s.thrown
             /\ tbl' = IF s.thrown = NoError THEN "live" ELSE "none"
    /\ op' = "NewTableArrays"
    /\ UNCHANGED <<reactions, load, loadError, disk, fetched, content, write, saveError, saveCalls, loadCalls, budget>>

\* new Table(filename): the field initialisers, then getDataFrom issues the
\* read.  The file read is one the caller has written with saveTo, or, for
\* the first table, the file as it is.
NewTableFile ==
    /\ Running
    /\ \/ tbl = "none" /\ thrown = NoError /\ budget' = budget
       \/ tbl = "live" /\ load # "pending" /\ write.state = "resolved"
          /\ budget > 0 /\ budget' = budget - 1
    /\ Commit([Heap EXCEPT !.flat = Append(flat, <<>>), !.outer = Append(outer, <<>>),
                           !.cols = Len(flat) + 1, !.data = Len(outer) + 1])
    /\ tbl' = "live"
    /\ load' = "pending"
    /\ loadError' = NoError
    /\ loadCalls' = <<>>
    /\ reactions' = Superseded("load")
    /\ fetched' = FALSE
    /\ content' = <<>>
    /\ op' = "NewTableFile"
    /\ UNCHANGED <<disk, write, saveError, saveCalls, thrown>>

\* a variant that stores the parsed rows and leaves the columns
adoptRowsOnly(h, columns, data) ==
    LET a == AllocRows(Append(h.flat, columns), data)
    IN  [h EXCEPT !.flat = a.flat, !.outer = Append(h.outer, a.refs),
                  !.data = Len(h.outer) + 1]

\* this._columns = columns; this._data = data, the parsed arrays being new
adopt(h, columns, data) ==
    LET a == AllocRows(Append(h.flat, columns), data)
    IN  [h EXCEPT !.flat = a.flat, !.outer = Append(h.outer, a.refs),
                  !.cols = Len(h.flat) + 1, !.data = Len(h.outer) + 1]

\* fs.readFile reads the file, in the thread pool, some time after the
\* constructor asked for it and before its callback runs: the text it
\* delivers is the text the file holds at that moment
ReadFile ==
    /\ load = "pending" /\ ~fetched
    /\ fetched' = TRUE
    /\ content' = disk
    /\ op' = "ReadFile"
    /\ UNCHANGED <<reactions, heapVars, tbl, load, loadError, loadCalls, disk, write, saveError,
                   saveCalls, thrown, budget>>

\* the callback of fs.readFile and the promise reactions that follow it: the
\* read failed with one of errors before it got a text, or the text it got
\* is parsed and, when every row has the length of the header, stored; then
\* the callback of the constructor is called, once; when throws is TRUE it
\* throws on null, which leaves catch() a reaction that runs in a later
\* step.  A callback of fs runs only when the microtask queue is empty.
ReadCompleteWith(errors, throwing) ==
    /\ load = "pending" /\ reactions = {}
    /\ \E error \in (IF fetched THEN {"none"} ELSE errors), throws \in throwing :
         IF error # "none"
         THEN /\ load' = "rejected"
              /\ loadError' = CannotAccessFile(error)
              /\ loadCalls' = notify("rejected", CannotAccessFile(error), throws).calls
              /\ UNCHANGED <<heapVars, reactions>>
         ELSE LET p == parseContent(content)
                  n == notify(IF p.outcome = "resolve" THEN "resolved"
                              ELSE "rejected", p.error, throws)
              IN  /\ load' = IF p.outcome = "resolve" THEN "resolved"
                             ELSE IF p.outcome = "reject" THEN "rejected" ELSE "hung"
                  /\ loadError' = p.error
                  /\ loadCalls' = IF p.outcome = "hang" THEN <<>> ELSE n.calls
                  /\ reactions' = IF p.outcome # "hang" /\ n.caught
                                  THEN reactions \cup {"load"} ELSE reactions
                  /\ IF p.outcome = "resolve"
                     THEN Commit(adopt(Heap, p.columns, p.data))
                     ELSE UNCHANGED heapVars
    /\ op' = "ReadComplete"
    /\ UNCHANGED <<tbl, disk, fetched, content, write, saveError, saveCalls, thrown, budget>>

\* the read completes; the constructor was given no callback of its own
ReadComplete == ReadCompleteWith({"EACCES"}, {FALSE})

\* the read completes; the constructor was given a callback
ReadCompleteNotify == ReadCompleteWith(FsErrors, BOOLEAN)

\* table.data = data, data a fresh array literal of the caller
SetData ==
    /\ Running /\ tbl = "live" /\ budget > 0
    /\ \E data \in DataArrays(MaxRows) :
         LET a == AllocRows(flat, data)
             ou == Append(outer, a.refs)
             d == Len(outer) + 1
             s == setData(a.flat, ou, _columns, _data, d)
         IN  /\ Commit([Heap EXCEPT !.flat = a.flat, !.outer = ou,
                                    !.cdata = d, !.data = s.data])
             /\ thrown' = s.thrown
    /\ op' = "SetData"
    /\ budget' = budget - 1
    /\ UNCHANGED <<reactions, tbl, load, loadError, disk, fetched, content, write, saveError, saveCalls, loadCalls>>

\* table.columns
GetColumns ==
    /\ Running /\ tbl = "live" /\ budget > 0
    /\ LET c == cloneArray(flat, outer, FALSE, _columns)
       IN  Commit([Heap EXCEPT !.flat = c.flat, !.outer = c.outer, !.gcols = c.ref])
    /\ op' = "GetColumns"
    /\ budget' = budget - 1
    /\ UNCHANGED <<reactions, tbl, load, loadError, disk, fetched, content, write, saveError, saveCalls, loadCalls, thrown>>

\* table.data
GetData ==
    /\ Running /\ tbl = "live" /\ budget > 0
    /\ LET c == cloneArray(flat, outer, TRUE, _data)
       IN  Commit([Heap EXCEPT !.flat = c.flat, !.outer = c.outer, !.gdata = c.ref])
    /\ op' = "GetData"
    /\ budget' = budget - 1
    /\ UNCHANGED <<reactions, tbl, load, loadError, disk, fetched, content, write, saveError, saveCalls, loadCalls, thrown>>

\* table.saveTo(filename) or table.saveTo(filename, callbackFn): toString,
\* handed to fs.writeFile with the file name, once
SaveToAs(names, forms) ==
    /\ Running /\ tbl = "live" /\ budget > 0
    /\ write.state # "pending"
    /\ \E name \in names, form \in forms :
         write' = [state |-> "pending", content |-> toString(TableColumns, TableData),
                   name |-> name, form |-> form, requests |-> 1, fs |-> "requested"]
    /\ saveError' = NoError
    /\ saveCalls' = <<>>
    /\ reactions' = Superseded("save")
    /\ op' = "SaveTo"
    /\ budget' = budget - 1
    /\ UNCHANGED <<heapVars, tbl, load, loadError, loadCalls, disk, fetched, content, thrown>>

\* table.saveTo(filename) on the file the model reads
SaveTo == SaveToAs({FileName}, {"promise"})

\* saveTo on either file, with or without a callback
SaveToNotify == SaveToAs({FileName, OtherName}, {"promise", "callback"})

\* fs.writeFile at work in the thread pool, before its callback runs: it
\* opens the file, which empties it, and then writes the text
WriteFile ==
    /\ write.state = "pending" /\ write.fs \in {"requested", "truncated"}
    /\ write' = [write EXCEPT !.fs = IF write.fs = "requested" THEN "truncated"
                                     ELSE "written"]
    /\ disk' = IF write.name # FileName THEN disk
               ELSE IF write.fs = "requested" THEN <<>> ELSE write.content
    /\ op' = "WriteFile"
    /\ UNCHANGED <<reactions, heapVars, tbl, load, loadError, loadCalls, fetched, content, saveError,
                   saveCalls, thrown, budget>>

\* the callback of fs.writeFile and the promise reactions that follow it: the
\* text is in the file, or fs.writeFile failed with one of errors before
\* it had written it; the callback of saveTo is called, once, and when it
\* throws on null catch() is left a reaction that runs in a later step
WriteCompleteWith(errors, throwing) ==
    /\ Running /\ write.state = "pending" /\ reactions = {}
    /\ \E error \in (IF write.fs = "written" THEN {"none"} ELSE errors),
          throws \in throwing :
         LET outcome == IF error = "none" THEN "resolved" ELSE "rejected"
             e == IF error = "none" THEN NoError ELSE CannotAccessFile(error)
             n == notify(outcome, e, throws)
         IN  /\ write' = [write EXCEPT !.state = outcome]
             /\ saveError' = e
             /\ saveCalls' = IF write.form = "callback" THEN n.calls ELSE <<>>
             /\ reactions' = IF write.form = "callback" /\ n.caught
                             THEN reactions \cup {"save"} ELSE reactions
    /\ op' = "WriteComplete"
    /\ UNCHANGED <<heapVars, tbl, load, loadError, loadCalls, disk, fetched, content,
                   thrown, budget>>

\* .catch(callbackFn): the reaction of a callback that threw when called
\* with null runs, and calls the callback again with what it threw
CatchReaction ==
    /\ Running
    /\ \E r \in reactions :
         /\ reactions' = reactions \ {r}
         /\ saveCalls' = IF r = "save" THEN Append(saveCalls, CallbackException)
                         ELSE saveCalls
         /\ loadCalls' = IF r = "load" THEN Append(loadCalls, CallbackException)
                         ELSE loadCalls
    /\ op' = "CatchReaction"
    /\ UNCHANGED <<heapVars, tbl, load, loadError, disk, fetched, content, write,
                   saveError, thrown, budget>>

\* the write completes; no callback throws
WriteComplete == WriteCompleteWith({"EACCES"}, {FALSE})

\* the write completes, the callback of saveTo returning or throwing
WriteCompleteNotify == WriteCompleteWith(FsErrors, BOOLEAN)

(***************************************************************************)
(* The caller changing, in place, an array it holds.                       *)
(***************************************************************************)
\* array r of strings after one push, pop or overwrite
FlatMutations(fl, r) ==
    {[fl EXCEPT ![r] = Append(fl[r], OtherCell)]}
    \cup {[fl EXCEPT ![r] = SubSeq(fl[r], 1, Len(fl[r]) - 1)] : x \in {y \in {1} : Len(fl[r]) > 0}}
    \cup {[fl EXCEPT ![r][i] = OtherCell] : i \in 1..Len(fl[r])}

\* the heap after one change in place of the array cols of strings, of the
\* array dat of rows (a pop, or a push or overwrite with a new empty row), or
\* of a row of dat
Mutations(fl, ou, cols, dat) ==
    {[flat |-> f, outer |-> ou] : f \in IF cols = 0 THEN {} ELSE FlatMutations(fl, cols)}
    \cup (IF dat = 0 THEN {}
          ELSE {[flat |-> fl, outer |-> [ou EXCEPT ![dat] = SubSeq(ou[dat], 1, Len(ou[dat]) - 1)]] :
                     x \in {y \in {1} : Len(ou[dat]) > 0}}
               \cup {[flat |-> Append(fl, <<>>),
                      outer |-> [ou EXCEPT ![dat] = Append(ou[dat], Len(fl) + 1)]]}
               \cup {[flat |-> Append(fl, <<>>),
                      outer |-> [ou EXCEPT ![dat][i] = Len(fl) + 1]] : i \in 1..Len(ou[dat])}
               \cup UNION {{[flat |-> f, outer |-> ou] : f \in FlatMutations(fl, ou[dat][i])} :
                           i \in 1..Len(ou[dat])})

\* the caller changes an array it handed to the constructor or to the setter
MutateArgument ==
    /\ Running /\ budget > 0
    /\ \E m \in Mutations(flat, outer, callerColumns, callerData) :
         Commit([Heap EXCEPT !.flat = m.flat, !.outer = m.outer])
    /\ op' = "MutateArgument"
    /\ budget' = budget - 1
    /\ UNCHANGED <<reactions, tbl, load, loadError, disk, fetched, content, write, saveError, saveCalls, loadCalls, thrown>>

\* the caller changes an array a getter returned
MutateReturned ==
    /\ Running /\ budget > 0
    /\ \E m \in Mutations(flat, outer, gotColumns, gotData) :
         Commit([Heap EXCEPT !.flat = m.flat, !.outer = m.outer])
    /\ op' = "MutateReturned"
    /\ budget' = budget - 1
    /\ UNCHANGED <<reactions, tbl, load, loadError, disk, fetched, content, write, saveError, saveCalls, loadCalls, thrown>>

(***************************************************************************)
(* Specifications.                                                         *)
(***************************************************************************)
\* the operations of the class
NextAPI ==
    \/ NewTableArrays
    \/ NewTableFile
    \/ ReadComplete
    \/ SetData
    \/ GetColumns
    \/ GetData
    \/ SaveTo
    \/ WriteComplete
    \/ ReadFile
    \/ WriteFile

\* the operations of the class and a caller that changes its arrays in place
Next ==
    \/ NextAPI
    \/ MutateArgument
    \/ MutateReturned

\* writing a table to the file and reading a file
NextCodec ==
    \/ SaveTo
    \/ WriteComplete
    \/ NewTableFile
    \/ ReadComplete
    \/ ReadFile
    \/ WriteFile

\* saving and reading with callbacks, on either file
NextNotify ==
    \/ NewTableFile
    \/ ReadCompleteNotify
    \/ SaveToNotify
    \/ WriteCompleteNotify
    \/ CatchReaction
    \/ ReadFile
    \/ WriteFile

Spec == Init /\ [][Next]_vars
SpecAPI == Init /\ [][NextAPI]_vars
SpecCodec == InitCodec /\ [][NextCodec]_vars
SpecNotify == InitNotify /\ [][NextNotify]_vars

(***************************************************************************)
(* Reference definitions the claims are stated with.                       *)
(***************************************************************************)
\* the arrays the caller handed over, by value
CallerColumns == HeapColumns(flat, callerColumns)
CallerData == HeapData(flat, outer, callerData)

\* the read of the file delivered its text (it did not fail)
ReadDelivered == op = "ReadComplete" /\ loadError.type # "CannotAccessFile"

QuoteFree(s) == \A i \in 1..Len(s) : s[i] # Quote

\* s cut at every sep
RECURSIVE SplitOn(_, _)
SplitOn(s, sep) ==
    IF \E i \in 1..Len(s) : s[i] = sep
    THEN LET i == CHOOSE k \in 1..Len(s) : s[k] = sep /\ \A j \in 1..(k - 1) : s[j] # sep
         IN  <<SubSeq(s, 1, i - 1)>> \o SplitOn(SubSeq(s, i + 1, Len(s)), sep)
    ELSE <<s>>

DropTrailingEmpty(fields) ==
    IF fields[Len(fields)] = <<>> THEN SubSeq(fields, 1, Len(fields) - 1) ELSE fields

\* the lines of a text, each cut at its commas
LineFields(text) == [i \in 1..Len(SplitOn(text, NL)) |-> SplitOn(SplitOn(text, NL)[i], Comma)]
\* the same, the last field of a line dropped when it is empty
LineFieldsDropped(text) == [i \in 1..Len(LineFields(text)) |-> DropTrailingEmpty(LineFields(text)[i])]

\* every quote written twice
RECURSIVE Doubled(_)
Doubled(s) ==
    IF s = <<>> THEN <<>>
    ELSE (IF Head(s) = Quote THEN <<Quote, Quote>> ELSE <<Head(s)>>) \o Doubled(Tail(s))

NeedsWrap(s) ==
    \/ \E i \in 1..Len(s) : s[i] = Comma \/ s[i] = NL
    \/ Len(s) > 0 /\ s[1] = Quote

Encoded(s) == IF NeedsWrap(s) THEN <<Quote>> \o Doubled(s) \o <<Quote>> ELSE s

\* the strings of parts with sep between each two
RECURSIVE Joined(_, _)
Joined(parts, sep) ==
    IF parts = <<>> THEN <<>>
    ELSE IF Len(parts) = 1 THEN parts[1]
    ELSE parts[1] \o <<sep>> \o Joined(Tail(parts), sep)

EncodedLine(cells) == Joined([j \in 1..Len(cells) |-> convertToproperStr(cells[j])], Comma)

Layout(columns, data) ==
    IF data = <<>> THEN EncodedLine(columns)
    ELSE EncodedLine(columns) \o <<NL>>
         \o Joined([i \in 1..Len(data) |-> EncodedLine(data[i])], NL)

\* the first row of rows whose length is not n
FirstBadRow(rows, n) ==
    CHOOSE i \in 1..Len(rows) :
        Len(rows[i]) # n /\ \A j \in 1..(i - 1) : Len(rows[j]) = n

WellShaped(rows, n) == \A i \in 1..Len(rows) : Len(rows[i]) = n

(***************************************************************************)
(* The claims.                                                             *)
(***************************************************************************)

\* C1 (as claimed): a table written by saveTo and read back from that file
\* loads, with the columns and the rows it was built from, whatever its cells.
C1_RoundTripAllCells ==
    (ReadDelivered /\ callerColumns # 0 /\ content = toString(CallerColumns, CallerData))
        => /\ load = "resolved"
           /\ TableColumns = CallerColumns
           /\ TableData = CallerData

\* C2: every stored row has as many cells as there are stored columns, in
\* every state the operations of the class reach.
C2_ShapeInvariant ==
    tbl = "live" => \A i \in 1..Len(TableData) : Len(TableData[i]) = Len(TableColumns)

\* C2 witness: a table with rows and columns stands after an assignment that threw.
C2_Witness ==
    /\ tbl = "live" /\ op = "SetData" /\ thrown.type = "InconsistentRowLengths"
    /\ Len(TableData) > 0 /\ Len(TableColumns) > 0

\* C3 (as claimed): a caller changing in place an array it handed to the
\* constructor or to the setter changes nothing the table reads back, and
\* cannot break the shape of the stored rows.
C3_ExclusiveOwnership ==
    [][op' = "MutateArgument" =>
          /\ TableColumns' = TableColumns
          /\ TableData' = TableData
          /\ toString(TableColumns', TableData') = toString(TableColumns, TableData)
          /\ WellShaped(TableData', Len(TableColumns'))]_vars

\* C4: a caller changing in place an array a getter returned changes nothing
\* the table reads back; the arrays returned are not the table's own.
C4_DefensiveCopy ==
    [][/\ op' = "MutateReturned" =>
            /\ TableColumns' = TableColumns
            /\ TableData' = TableData
            /\ toString(TableColumns', TableData') = toString(TableColumns, TableData)
       /\ op' = "GetColumns" => gotColumns' # _columns' /\ HeapColumns(flat', gotColumns') = TableColumns
       /\ op' = "GetData" =>
            /\ gotData' # _data'
            /\ HeapData(flat', outer', gotData') = TableData
            /\ \A i \in 1..Len(outer'[gotData']) :
                   \A j \in 1..Len(outer'[_data']) : outer'[gotData'][i] # outer'[_data'][j]]_vars

\* C4 witness: a returned copy was changed and now differs from what the table holds.
C4_Witness ==
    /\ op = "MutateReturned" /\ tbl = "live"
    /\ \/ gotData # 0 /\ HeapData(flat, outer, gotData) # TableData
       \/ gotColumns # 0 /\ HeapColumns(flat, gotColumns) # TableColumns

\* C5: an assignment of rows (constructor or setter) whose rows all have the
\* length of the columns makes them the table's rows; one with a row of
\* another length throws InconsistentRowLengths naming the first such row
\* (counted from 1), its length and the number of columns, and leaves the
\* table as it was; no other operation of the class but a completed read
\* changes what the table holds.
C5_AssignmentAllOrNothing ==
    [][/\ op' \in {"SetData", "NewTableArrays"} =>
            LET rows == HeapData(flat', outer', callerData')
                n == IF op' = "SetData" THEN Len(TableColumns)
                     ELSE Len(HeapColumns(flat', callerColumns'))
            IN  IF WellShaped(rows, n)
                THEN /\ thrown' = NoError
                     /\ tbl' = "live"
                     /\ TableData' = rows
                     /\ Len(TableColumns') = n
                ELSE /\ thrown' = InconsistentRowLengths(FirstBadRow(rows, n),
                                                         Len(rows[FirstBadRow(rows, n)]), n)
                     /\ tbl' = tbl
                     /\ TableData' = TableData
                     /\ TableColumns' = TableColumns
       /\ op' = "SetData" => TableColumns' = TableColumns
       /\ op' \in {"GetColumns", "GetData", "SaveTo", "WriteFile", "WriteComplete", "ReadFile"} =>
            TableData' = TableData /\ TableColumns' = TableColumns]_vars

\* C5 witness: an assignment whose second row is too short threw and the
\* rows stored before are still there.
C5_Witness ==
    /\ op = "SetData" /\ thrown.type = "InconsistentRowLengths" /\ thrown.row = 2
    /\ Len(TableData) > 0

\* C6: a read whose text has a data row of another length than the header
\* is rejected with InconsistentRowLengths naming the first such row
\* (counted from 1 among the data rows), and stores nothing: columns and
\* rows stay empty as they were.
C6_ParseAllOrNothing ==
    [][op' = "ReadComplete" /\ loadError'.type # "CannotAccessFile" =>
          /\ loadError'.type = "InconsistentRowLengths" =>
                /\ load' = "rejected"
                /\ TableColumns' = TableColumns /\ TableData' = TableData
                /\ TableColumns' = <<>> /\ TableData' = <<>>
                /\ _columns' = _columns /\ _data' = _data
          /\ QuoteFree(content) =>
                LET lines == LineFieldsDropped(content)
                    n == Len(lines[1])
                    rows == Tail(lines)
                IN  IF WellShaped(rows, n)
                    THEN load' = "resolved"
                    ELSE /\ load' = "rejected"
                         /\ loadError' = InconsistentRowLengths(FirstBadRow(rows, n),
                                                Len(rows[FirstBadRow(rows, n)]), n)]_vars

\* C6 witness: the text a,b / 1,2 / 3 was read and rejected for its row 2.
C6_Witness ==
    /\ op = "ReadComplete" /\ content = ShortRowExample /\ load = "rejected"
    /\ loadError = InconsistentRowLengths(2, 1, 2)
    /\ TableColumns = <<>> /\ TableData = <<>>

\* the cells of the table
TableCells ==
    {TableColumns[i] : i \in 1..Len(TableColumns)}
    \cup UNION {{TableData[i][j] : j \in 1..Len(TableData[i])} : i \in 1..Len(TableData)}

\* C7: toString writes a field between double quotes, its quotes doubled,
\* exactly when it holds a comma or a newline or starts with a double quote,
\* and writes every other field as it is.
C7_FieldEncoding ==
    /\ \A f \in TableCells : convertToproperStr(f) = Encoded(f)
    /\ (op = "SaveTo" /\ Len(TableColumns) = 1 /\ TableData = <<>>)
           => write.content = Encoded(TableColumns[1])

\* C7 witness: a field with a double quote after its first character, and
\* no comma or newline, was written as it is.
C7_Witness ==
    /\ op = "SaveTo" /\ TableData = <<>>
    /\ TableColumns = <<<<"a", Quote, "a">>>>
    /\ write.content = <<"a", Quote, "a">>

\* C8: the text saveTo writes is the encoded column names joined by commas,
\* then, only when there are rows, a newline and the rows in order, the
\* cells of a row joined by commas and the rows by one newline each.
C8_Layout ==
    op = "SaveTo" =>
        /\ write.content = Layout(TableColumns, TableData)
        /\ TableData = <<>> => write.content = EncodedLine(TableColumns)
        /\ (TableData = <<>> /\ TableColumns = <<>>) => write.content = <<>>

\* C8 witness: a table of two columns and two rows was written.
C8_Witness ==
    /\ op = "SaveTo" /\ Len(TableColumns) = 2 /\ Len(TableData) = 2
    /\ Len(write.content) >= 3

\* C9 (as claimed): the first line of the text is the column set as it
\* stands, a last empty field included; only data rows lose a last empty
\* field.  parseRow reads the header as it reads a row, so the header a,
\* loads as the one column a.
C9_HeaderVerbatim ==
    (ReadDelivered /\ load = "resolved" /\ QuoteFree(content) /\ LineFields(content)[1] # <<<<>>>>)
        => /\ TableColumns = LineFields(content)[1]
           /\ TableData = Tail(LineFieldsDropped(content))

\* C10 (as claimed): a text that loads with at least one column loads to the
\* same columns and rows when one newline is added at its end.
C10_TrailingNewline ==
    (ReadDelivered /\ Len(content) > 0 /\ content[Len(content)] = NL)
        => LET p == parseContent(SubSeq(content, 1, Len(content) - 1))
           IN  (p.outcome = "resolve" /\ Len(p.columns) >= 1)
                   => /\ load = "resolved"
                      /\ TableColumns = p.columns
                      /\ TableData = p.data

\* a quoted field read as the format describes it: from the character after
\* the opening quote at j (counted from 0), a pair of quotes is one quote,
\* a single quote closes the field, any other character is part of it
RECURSIVE QuotedFrom(_, _, _)
QuotedFrom(text, j, value) ==
    IF j >= Len(text) THEN [closed |-> FALSE, value |-> value, end |-> j]
    ELSE IF text[j + 1] # Quote THEN QuotedFrom(text, j + 1, Append(value, text[j + 1]))
    ELSE IF j + 1 < Len(text) /\ text[j + 2] = Quote
    THEN QuotedFrom(text, j + 2, Append(value, Quote))
    ELSE [closed |-> TRUE, value |-> value, end |-> j + 1]

\* C11: a field that starts with a double quote is decoded with each pair
\* of quotes as one quote, commas and newlines kept, up to its first single
\* quote, and the field ends just before the separator that follows; so a
\* text that is one such field, or a header line and one such field, loads
\* with that value, its closing quote being the last character of the text.
C11_QuotedDecoding ==
    ReadDelivered =>
        /\ \A i \in 0..(Len(content) - 1) :
               (content[i + 1] = Quote /\ QuotedFrom(content, i + 1, <<>>).closed)
                   => parseColumn(content, i) =
                          [parsedColumn |-> QuotedFrom(content, i + 1, <<>>).value,
                           endIndex |-> QuotedFrom(content, i + 1, <<>>).end]
        /\ \A start \in {0, 2} :
               LET q == QuotedFrom(content, start + 1, <<>>)
               IN  (/\ Len(content) > start /\ content[start + 1] = Quote
                    /\ start = 2 => SubSeq(content, 1, 2) = <<"a", NL>>
                    /\ q.closed /\ q.end = Len(content) /\ q.value # <<>>)
                       => /\ load = "resolved"
                          /\ start = 0 => TableColumns = <<q.value>> /\ TableData = <<>>
                          /\ start = 2 => TableColumns = <<<<"a">>>> /\ TableData = <<<<q.value>>>>

\* C11 witness: the text a / "," was read: its row is the one cell holding a comma.
C11_Witness ==
    /\ ReadDelivered /\ load = "resolved"
    /\ content = <<"a", NL, Quote, Comma, Quote>>
    /\ TableColumns = <<<<"a">>>> /\ TableData = <<<<<<Comma>>>>>>

\* every line has as many fields as the first, none empty or starting with a quote
PlainFields(text) ==
    \A i \in 1..Len(LineFields(text)) :
        /\ Len(LineFields(text)[i]) = Len(LineFields(text)[1])
        /\ \A j \in 1..Len(LineFields(text)[i]) :
               LineFields(text)[i][j] # <<>> /\ LineFields(text)[i][j][1] # Quote

\* C12: a text whose fields are not empty and do not start with a double
\* quote, the same number on every line, loads with its first line cut at
\* the commas as columns and the other lines cut at the commas as rows,
\* double quotes inside a field kept; the empty text loads with no columns
\* and no rows.
C12_QuoteFreeParsing ==
    ReadDelivered =>
        /\ content = <<>> => load = "resolved" /\ TableColumns = <<>> /\ TableData = <<>>
        /\ (content # <<>> /\ PlainFields(content))
               => /\ load = "resolved"
                  /\ TableColumns = LineFields(content)[1]
                  /\ TableData = Tail(LineFields(content))

\* C12 witness: the text a" / a" was read as the column a" and one row.
C12_Witness ==
    /\ ReadDelivered /\ load = "resolved"
    /\ content = <<"a", Quote, NL, "a", Quote>>
    /\ TableColumns = <<<<"a", Quote>>>> /\ TableData = <<<<<<"a", Quote>>>>>>

\* C14 (as claimed): the parser comes to the end of every text, so no read
\* is left in parseRow's loop for ever.
C14_ParsingTerminates == load # "hung"

\* C13: saveTo hands fs.writeFile one request, for the file named and with
\* the text of toString; when the write succeeds the promise is resolved and
\* a callback is called with null, when it fails the promise is rejected
\* with, and a callback is called with, a CannotAccessFile error carrying
\* the error of fs; the table is the same after as before, and the request
\* and the outcome are the same with a callback as without.  A reaction of
\* catch() that runs later changes neither the request, the outcome, nor
\* what the callback was told first.
C13_SaveTo ==
    [][/\ op' = "SaveTo" =>
            /\ write'.requests = 1 /\ write'.state = "pending"
            /\ write'.name \in {FileName, OtherName}
            /\ write'.content = toString(TableColumns, TableData)
            /\ saveCalls' = <<>> /\ disk' = disk
       /\ op' = "WriteComplete" =>
            /\ write'.requests = 1
            /\ write'.name = write.name /\ write'.content = write.content
            /\ write'.state \in {"resolved", "rejected"} /\ disk' = disk
            /\ write'.state = "resolved" =>
                  /\ saveError' = NoError
                  /\ write.name = FileName => disk = write.content
                  /\ write.form = "callback" => saveCalls' = <<NoError>>
            /\ write'.state = "rejected" =>
                  /\ saveError'.type = "CannotAccessFile" /\ saveError'.data \in FsErrors
                  /\ write.form = "callback" => saveCalls' = <<saveError'>>
            /\ write.form = "promise" => saveCalls' = <<>>
       /\ op' = "WriteFile" =>
            /\ write'.requests = 1 /\ write'.state = "pending"
            /\ write'.name = write.name /\ write'.content = write.content
            /\ saveCalls' = <<>>
       /\ op' = "CatchReaction" =>
            /\ write' = write /\ saveError' = saveError /\ disk' = disk
            /\ saveCalls # <<>> => saveCalls'[1] = saveCalls[1]
       /\ op' \in {"SaveTo", "WriteFile", "WriteComplete", "CatchReaction"} =>
            /\ TableColumns' = TableColumns /\ TableData' = TableData
            /\ _columns' = _columns /\ _data' = _data]_vars

\* C13 witness: a write asked for with a callback failed, and the callback
\* was told the CannotAccessFile error with the error of fs in it.
C13_Witness ==
    /\ op = "WriteComplete" /\ write.form = "callback" /\ write.state = "rejected"
    /\ write.name = OtherName /\ write.content = <<"a", NL, Quote, Comma, Quote>>
    /\ saveCalls = <<CannotAccessFile("ENOENT")>>

\* C15 (as claimed): the callback of saveTo and the callback of the file
\* constructor are called once, with null when the operation succeeded and
\* with its Table.Error when it failed, whatever the callback does: in every
\* state after the operation has settled, the calls made are that one call.
C15_CallbackOnce ==
    /\ (write.state \in {"resolved", "rejected"} /\ write.form = "callback") =>
            saveCalls = <<saveError>>
    /\ load \in {"resolved", "rejected"} => loadCalls = <<loadError>>

\* C16: from the file constructor until the read completes the table has
\* no columns and no rows; a read that succeeds stores the parsed columns
\* and rows in one step, the callback told null after it; a read that fails
\* tells the callback a CannotAccessFile error carrying the error of fs and
\* stores nothing; no other step of saving and reading changes the columns
\* or the rows.
C16_AtomicAdoption ==
    [][/\ op' = "NewTableFile" =>
            /\ load' = "pending" /\ loadCalls' = <<>>
            /\ TableColumns' = <<>> /\ TableData' = <<>>
       /\ (load = "pending" /\ op' # "ReadComplete") =>
            /\ load' = "pending" /\ loadCalls' = <<>>
            /\ TableColumns' = <<>> /\ TableData' = <<>>
       /\ op' = "ReadComplete" =>
            /\ TableColumns = <<>> /\ TableData = <<>>
            /\ load' = "resolved" =>
                  /\ TableColumns' = parseContent(content).columns
                  /\ TableData' = parseContent(content).data
                  /\ loadCalls' = <<NoError>>
            /\ load' # "resolved" =>
                  /\ TableColumns' = <<>> /\ TableData' = <<>>
            /\ loadError'.type = "CannotAccessFile" =>
                  /\ load' = "rejected" /\ loadError'.data \in FsErrors
                  /\ loadCalls' = <<loadError'>>
       /\ op' \notin {"NewTableFile", "ReadComplete"} =>
            TableColumns' = TableColumns /\ TableData' = TableData]_vars

\* C16 witness: a read stored two columns and a row of two cells and told
\* the callback null.
C16_Witness ==
    /\ op = "ReadComplete" /\ load = "resolved" /\ loadCalls = <<NoError>>
    /\ Len(TableColumns) = 2 /\ Len(TableData) = 1 /\ Len(TableData[1]) = 2
=============================================================================
